---- MODULE Spec2Model ----
(***************************************************************************)
(* A model of the moss-api plugin SDK: the hook-context accessor, the      *)
(* command-bridge accessor, the domain wrappers built on them, and the     *)
(* in-memory mock of the host bridge (filesystem, URL registry, download   *)
(* tracker, binary registry).                                              *)
(*                                                                         *)
(* Strings the code only compares are TLA+ strings.  Strings the code      *)
(* takes apart or puts together (paths joined with "/", binary keys        *)
(* joined with " " and trimmed) are sequences of one-character strings.    *)
(***************************************************************************)
EXTENDS Integers, Sequences, FiniteSets, TLC

(***************************************************************************)
(* Bounds of the model.                                                    *)
(***************************************************************************)
MaxTime == 2
MaxPending == 1
MaxTimers == 1
MaxDownloads == 3
MaxLookups == 4
MaxOpens == 2

(***************************************************************************)
(* Values.                                                                 *)
(***************************************************************************)
HookError == "This function must be called from within a plugin hook."
BridgeError == "Tauri core not available"
HostError == "Command rejected by host"
NetworkTimeout == "Network timeout"
FileNotFound == "File not found"
TypeError == "TypeError: cannot read properties of undefined"

\* What the global slot window.__MOSS_INTERNAL_CONTEXT__ can hold: nothing
\* (absent or undefined), null, or a context record.
NoContext(k) == [kind |-> k, plugin_name |-> <<>>, project_path |-> <<>>, moss_dir |-> <<>>]
CtxA == [kind |-> "record", plugin_name |-> <<"g">>, project_path |-> <<"p">>,
         moss_dir |-> <<"p", "/", "m">>]
CtxB == [kind |-> "record", plugin_name |-> <<"h">>, project_path |-> <<"p", "/", "a">>,
         moss_dir |-> <<"p", "/", "a", "/", "m">>]
ContextRecords == {CtxA, CtxB}
ClearedValues == {NoContext("undefined"), NoContext("null")}
ContextSlot == ClearedValues \cup ContextRecords

\* What window.__TAURI__ can hold: nothing, the mock's dispatch function, or a
\* bridge that rejects every command (the tests' mockRejectedValue).
BridgeSlot == {"absent", "mock", "reject"}

ProjectPaths == {<<"p">>, <<"p", "/", "a">>}
RelPaths == {<<"b">>, <<"a", "/", "b">>}
FullPaths == {<<"p", "/", "b">>, <<"p", "/", "a", "/", "b">>, <<"p", "/", "a", "/", "a", "/", "b">>}
Contents == {"", "d1", "d2"}

\* The settled state of a promise; ty tags the JavaScript type of val.
Resolved(ty, v) == [st |-> "resolved", ty |-> ty, val |-> v]
Rejected(e) == [st |-> "rejected", ty |-> "error", val |-> e]
Pending == [st |-> "pending", ty |-> "none", val |-> "none"]
ResolvedNull == Resolved("null", "null")
ResolvedUndefined == Resolved("undefined", "undefined")

VARIABLES
  context,      \* window.__MOSS_INTERNAL_CONTEXT__
  bridge,       \* window.__TAURI__
  msgCtx,       \* currentPluginName, currentHookName of the messaging module
  files,        \* the mock filesystem: full path -> MockFile
  now,          \* the clock new Date() reads
  activeDownloads,
  maxConcurrent,
  completedDownloads,
  failedDownloads,
  responses,    \* URL -> response or response sequence
  callCounts,   \* URL -> number of lookups of a sequence
  results,      \* binary key -> result
  cookies,      \* "plugin:project" key -> cookie list
  openedUrls,   \* the browser tracker's list of opened URLs
  closeCount,   \* the browser tracker's count of closes
  isOpen,       \* the browser tracker's open flag
  timers,       \* pending setTimeout callbacks of delayed responses
  ret,          \* the latest operation and how its promise settled
  pending,      \* wrapper calls whose promise the caller has not yet observed
  lookups,      \* history: URL -> lookups since its latest registration
  started       \* history: downloads started since the tracker was fresh

vars == <<context, bridge, msgCtx, files, now, activeDownloads, maxConcurrent,
          completedDownloads, failedDownloads, responses, callCounts, results,
          cookies, openedUrls, closeCount, isOpen, timers, ret, pending, lookups,
          started>>

envVars == <<context, bridge, msgCtx>>
trackerVars == <<activeDownloads, maxConcurrent, completedDownloads, failedDownloads, started>>
urlVars == <<responses, callCounts, lookups>>
browserVars == <<openedUrls, closeCount, isOpen>>
storeVars == <<files, trackerVars, urlVars, results, cookies, browserVars, timers>>

EmptyMap == [q \in {} |-> "undefined"]

\* what a test keeps of an awaited call: its name and how it settled (the
\* arguments are the test's own and are not kept)
Op(name, args, out) == [op |-> name, out |-> out]
NoOp == Op("none", <<>>, Pending)

(***************************************************************************)
(* Context accessor and command bridge accessor.                           *)
(***************************************************************************)
\* `!context`: undefined and null are both falsy, a record is truthy
ContextIsSet == context.kind = "record"

\* getInternalContext(): the context, or the hook error thrown
getInternalContext_NoCheck == Resolved("record", context)

getInternalContext ==
  IF ContextIsSet THEN Resolved("record", context) ELSE Rejected(HookError)

\* hasContext(): `context !== undefined`, true for null as for a record
hasContext == context.kind # "undefined"

\* isTauriAvailable(): !!w.__TAURI__?.core
isTauriAvailable == bridge # "absent"

\* getTauriCore(): the core, or the bridge error thrown
getTauriCore ==
  IF bridge # "absent" THEN Resolved("string", bridge) ELSE Rejected(BridgeError)

(***************************************************************************)
(* Mock filesystem.                                                        *)
(***************************************************************************)
Join(projectPath, relativePath) == projectPath \o <<"/">> \o relativePath

\* files.get(path) is a record, which is truthy, or undefined
HasFile(path) == path \in DOMAIN files

\* setFile stamping createdAt anew on every write
SetFileIn_ResetCreated(fs, path, content, t) ==
  [q \in (DOMAIN fs) \cup {path} |->
     IF q = path THEN [content |-> content, createdAt |-> t, modifiedAt |-> t] ELSE fs[q]]

\* the map after setFile(path, content) at clock value t
SetFileIn(fs, path, content, t) ==
  LET created == IF path \in DOMAIN fs THEN fs[path].createdAt ELSE t
      rec == [content |-> content, createdAt |-> created, modifiedAt |-> t]
  IN [q \in (DOMAIN fs) \cup {path} |-> IF q = path THEN rec ELSE fs[q]]

DeleteFileIn(fs, path) == [q \in (DOMAIN fs) \ {path} |-> fs[q]]

(***************************************************************************)
(* URL response registry.                                                  *)
(***************************************************************************)
Urls == {"https://h/u1", "https://h/u2.jpg"}

\* A MockUrlResponse.  An optional field left out is "" or 0, which the
\* code's `||` and `if (response.delay)` treat like undefined.
Resp(status, ok, delay) ==
  [kind |-> "response", status |-> status, ok |-> ok, contentType |-> "",
   bodyBase64 |-> "", bytesWritten |-> 0, actualPath |-> "", delay |-> delay]

defaultResponse ==
  [kind |-> "response", status |-> 200, ok |-> TRUE, contentType |-> "image/png",
   bodyBase64 |-> "iVBORw0KGgo", bytesWritten |-> 68,
   actualPath |-> "assets/image.png", delay |-> 0]

\* config[-1] of an empty array
UndefinedResponse ==
  [kind |-> "undefined", status |-> 0, ok |-> FALSE, contentType |-> "",
   bodyBase64 |-> "", bytesWritten |-> 0, actualPath |-> "", delay |-> 0]

RespOk == Resp(200, TRUE, 0)
RespNotFound == Resp(404, FALSE, 0)
RespNetwork == Resp(0, FALSE, 0)
RespSlow == Resp(200, TRUE, 1)
RespSlowFail == Resp(500, FALSE, 1)
RespNetworkSlow == Resp(0, FALSE, 1)

\* what setResponse is called with: one response, or an array of them
Single(r) == [array |-> FALSE, list |-> <<r>>]
Array(l) == [array |-> TRUE, list |-> l]
Registrations ==
  {Single(RespOk), Single(RespNetwork), Single(RespSlow),
   Array(<<>>), Array(<<RespNotFound>>), Array(<<RespNetwork, RespOk>>),
   Array(<<RespNotFound, RespSlowFail, RespOk>>)}

Min(a, b) == IF a < b THEN a ELSE b

\* callCounts.get(url) || 0
CountOf(url) == IF url \in DOMAIN callCounts THEN callCounts[url] ELSE 0

\* the value getResponse(url) returns
ResponseFor_NoClamp(url) ==
  IF url \notin DOMAIN responses THEN defaultResponse
  ELSE LET config == responses[url] IN
       IF config.array
       THEN IF CountOf(url) + 1 \in 1..Len(config.list)
            THEN config.list[CountOf(url) + 1]
            ELSE UndefinedResponse
       ELSE config.list[1]

ResponseFor(url) ==
  IF url \notin DOMAIN responses THEN defaultResponse
  ELSE LET config == responses[url] IN
       IF config.array
       THEN LET index == Min(CountOf(url), Len(config.list) - 1)
            IN IF index < 0 THEN UndefinedResponse ELSE config.list[index + 1]
       ELSE config.list[1]

\* a lookup that advances the counter of every registered URL
CountsAfter_EveryUrl(url) ==
  IF url \in DOMAIN responses /\ responses[url].array
  THEN [q \in (DOMAIN callCounts) \cup {url} |-> 
          IF q \in DOMAIN callCounts THEN callCounts[q] + 1 ELSE 1]
  ELSE callCounts

\* the call counts getResponse(url) leaves
CountsAfter(url) ==
  IF url \in DOMAIN responses /\ responses[url].array
  THEN [q \in (DOMAIN callCounts) \cup {url} |->
          IF q = url THEN CountOf(url) + 1 ELSE callCounts[q]]
  ELSE callCounts

\* getResponse(url) as a step: the counter advances, the history counts the lookup
GetResponseStep(url) ==
  /\ lookups[url] < MaxLookups
  /\ callCounts' = CountsAfter(url)
  /\ lookups' = [lookups EXCEPT ![url] = @ + 1]
  /\ UNCHANGED responses

(***************************************************************************)
(* Download tracker.                                                       *)
(***************************************************************************)
\* maxConcurrent after startDownload
MaxAfterStart_Stale(active, maxc) == maxc

MaxAfterStart(active, maxc) == IF active + 1 > maxc THEN active + 1 ELSE maxc

StartDownloadStep(url) ==
  /\ activeDownloads' = activeDownloads + 1
  /\ maxConcurrent' = MaxAfterStart(activeDownloads, maxConcurrent)
  /\ started' = started + 1

\* endDownload(url, success, error) when activeDownloads is `active`; an error
\* left out is "", which `error || "Unknown error"` treats like undefined
EndDownloadFrom(active, url, success, error) ==
  /\ activeDownloads' = active - 1
  /\ IF success
     THEN /\ completedDownloads' = Append(completedDownloads, url)
          /\ UNCHANGED failedDownloads
     ELSE /\ failedDownloads' =
               Append(failedDownloads,
                      [url |-> url, error |-> IF error = "" THEN "Unknown error" ELSE error])
          /\ UNCHANGED completedDownloads

Ended == Len(completedDownloads) + Len(failedDownloads)

(***************************************************************************)
(* Binary result registry.                                                 *)
(***************************************************************************)
defaultResult == [success |-> TRUE, exitCode |-> 0, stdout |-> "", stderr |-> ""]
ResultFail == [success |-> FALSE, exitCode |-> 1, stdout |-> "", stderr |-> "boom"]
ResultOut == [success |-> TRUE, exitCode |-> 0, stdout |-> "out", stderr |-> ""]
BinaryResults == {ResultFail, ResultOut}

RECURSIVE JoinArgs(_)
\* args.join(" ")
JoinArgs(args) ==
  IF Len(args) = 0 THEN <<>>
  ELSE IF Len(args) = 1 THEN args[1]
  ELSE args[1] \o <<" ">> \o JoinArgs(Tail(args))

RECURSIVE TrimStart(_)
TrimStart(s) == IF Len(s) > 0 /\ s[1] = " " THEN TrimStart(Tail(s)) ELSE s

RECURSIVE TrimEnd(_)
TrimEnd(s) ==
  IF Len(s) > 0 /\ s[Len(s)] = " " THEN TrimEnd(SubSeq(s, 1, Len(s) - 1)) ELSE s

\* String.prototype.trim
Trim(s) == TrimEnd(TrimStart(s))

\* `${binaryPath} ${args.join(" ")}`.trim()
ExactKey(binaryPath, args) == Trim(binaryPath \o <<" ">> \o JoinArgs(args))

getResult(binaryPath, args) ==
  IF ExactKey(binaryPath, args) \in DOMAIN results
  THEN results[ExactKey(binaryPath, args)]
  ELSE IF binaryPath \in DOMAIN results THEN results[binaryPath]
  ELSE defaultResult

(***************************************************************************)
(* Cookie storage.                                                         *)
(***************************************************************************)
\* `${pluginName}:${projectPath}`
CookieKey(pluginName, projectPath) == pluginName \o <<":">> \o projectPath

\* cookies.get(key) || []
getCookies(pluginName, projectPath) ==
  IF CookieKey(pluginName, projectPath) \in DOMAIN cookies
  THEN cookies[CookieKey(pluginName, projectPath)]
  ELSE <<>>

(***************************************************************************)
(* The mock's dispatch function: one handler per command name.  A handler  *)
(* runs to its return, throw or setTimeout in one step.  For each handler, *)
(* <name>_result is the promise the invocation returns, as a function of   *)
(* the stores before the call, and <name> is what the call does to the     *)
(* stores.                                                                 *)
(***************************************************************************)
TargetDirs == {"assets"}
CookieLists == {<<[name |-> "s", value |-> "1"]>>,
                <<[name |-> "s", value |-> "2"], [name |-> "t", value |-> "3"]>>}

\* extractFilenameFromUrl, on the URLs of the model: the last path segment,
\* with ".png" added when it has no dot; "image.png" when the URL does not parse
extractFilenameFromUrl(url) ==
  CASE url = "https://h/u1" -> "u1.png"
    [] url = "https://h/u2.jpg" -> "u2.jpg"
    [] OTHER -> "image.png"

read_project_file_result(payload) ==
  LET fullPath == Join(payload.projectPath, payload.relativePath) IN
  IF HasFile(fullPath)
  THEN Resolved("string", files[fullPath].content)
  ELSE Rejected(FileNotFound)

\* a handler that reads the content from a payload field the wrapper never sets
write_project_file_WrongField(payload) ==
  LET fullPath == Join(payload.projectPath, payload.relativePath) IN
  /\ files' = SetFileIn(files, fullPath, "undefined", now)
  /\ UNCHANGED <<trackerVars, urlVars, results, cookies, browserVars, timers>>

write_project_file(payload) ==
  LET fullPath == Join(payload.projectPath, payload.relativePath) IN
  /\ files' = SetFileIn(files, fullPath, payload.data, now)
  /\ UNCHANGED <<trackerVars, urlVars, results, cookies, browserVars, timers>>

\* p.startsWith(prefix)
StartsWith(p, prefix) ==
  Len(p) >= Len(prefix) /\ SubSeq(p, 1, Len(prefix)) = prefix

\* the listing is a set: the order of the Map's keys is not modelled
list_project_files_result(payload) ==
  LET prefix == payload.projectPath \o <<"/">> IN
  Resolved("list", {SubSeq(p, Len(prefix) + 1, Len(p)) :
                      p \in {q \in DOMAIN files : StartsWith(q, prefix)}})

FetchResult(response) ==
  [status |-> response.status, ok |-> response.ok,
   body_base64 |-> response.bodyBase64, content_type |-> response.contentType]

\* a fetch_url that returns at once whatever the response's delay
fetch_url_result_NoDelay(payload) ==
  LET response == ResponseFor(payload.url) IN
  IF response.kind = "undefined" THEN Rejected(TypeError)
  ELSE Resolved("record", FetchResult(response))

\* reading response.delay of an undefined response throws
fetch_url_result(payload) ==
  LET response == ResponseFor(payload.url) IN
  IF response.kind = "undefined" THEN Rejected(TypeError)
  ELSE IF response.delay # 0 THEN Pending
  ELSE Resolved("record", FetchResult(response))

fetch_url(payload) ==
  LET url == payload.url
      response == ResponseFor(url) IN
  /\ GetResponseStep(url)
  /\ IF response.kind # "undefined" /\ response.delay # 0
     THEN /\ Len(timers) < MaxTimers
          /\ timers' = Append(timers, [cmd |-> "fetch_url", url |-> url,
                                       ok |-> response.ok, due |-> now + response.delay,
                                       result |-> Resolved("record", FetchResult(response))])
     ELSE UNCHANGED timers
  /\ UNCHANGED <<files, trackerVars, results, cookies, browserVars>>

DownloadResult(response, targetDir, url) ==
  [status |-> response.status, ok |-> response.ok,
   content_type |-> response.contentType, bytes_written |-> response.bytesWritten,
   actual_path |-> IF response.actualPath # "" THEN response.actualPath
                   ELSE targetDir \o "/" \o extractFilenameFromUrl(url)]

\* status 0 handled like any other status: no throw
IsNetworkFailure_Never(response) == FALSE

\* response.status === 0
IsNetworkFailure(response) == response.status = 0

\* reading response.status of an undefined response throws
download_asset_result(payload) ==
  LET response == ResponseFor(payload.url) IN
  IF response.kind = "undefined" THEN Rejected(TypeError)
  ELSE IF IsNetworkFailure(response) THEN Rejected(NetworkTimeout)
  ELSE IF response.delay # 0 THEN Pending
  ELSE Resolved("record", DownloadResult(response, payload.targetDir, payload.url))

download_asset(payload) ==
  LET url == payload.url
      response == ResponseFor(url) IN
  /\ started < MaxDownloads
  /\ GetResponseStep(url)
  /\ maxConcurrent' = MaxAfterStart(activeDownloads, maxConcurrent)
  /\ started' = started + 1
  /\ IF response.kind = "undefined"
     THEN \* the throw comes after startDownload and before any endDownload
          /\ activeDownloads' = activeDownloads + 1
          /\ UNCHANGED <<completedDownloads, failedDownloads, timers>>
     ELSE IF IsNetworkFailure(response)
     THEN /\ EndDownloadFrom(activeDownloads + 1, url, FALSE, "Network error")
          /\ UNCHANGED timers
     ELSE IF response.delay # 0
     THEN /\ Len(timers) < MaxTimers
          /\ activeDownloads' = activeDownloads + 1
          /\ timers' = Append(timers, [cmd |-> "download_asset", url |-> url,
                                       ok |-> response.ok, due |-> now + response.delay,
                                       result |-> Resolved("record",
                                         DownloadResult(response, payload.targetDir, url))])
          /\ UNCHANGED <<completedDownloads, failedDownloads>>
     ELSE /\ EndDownloadFrom(activeDownloads + 1, url, response.ok, "")
          /\ UNCHANGED timers
  /\ UNCHANGED <<files, results, cookies, browserVars>>

get_plugin_cookie_result(payload) ==
  Resolved("list", getCookies(payload.pluginName, payload.projectPath))

set_plugin_cookie(payload) ==
  LET key == CookieKey(payload.pluginName, payload.projectPath) IN
  /\ cookies' = [q \in (DOMAIN cookies) \cup {key} |->
                   IF q = key THEN payload.cookies ELSE cookies[q]]
  /\ UNCHANGED <<files, trackerVars, urlVars, results, browserVars, timers>>

\* The tracker's isOpen and closeCount are accessor properties with a getter
\* and no setter, and module code is strict: the handlers' assignments to them
\* throw, after open_plugin_browser has pushed the URL.
SetterError == "TypeError: cannot set property which has only a getter"

open_plugin_browser_result(payload) == Rejected(SetterError)

open_plugin_browser(payload) ==
  /\ Len(openedUrls) < MaxOpens
  /\ openedUrls' = Append(openedUrls, payload.url)
  /\ UNCHANGED <<closeCount, isOpen>>
  /\ UNCHANGED <<files, trackerVars, urlVars, results, cookies, timers>>

close_plugin_browser_result(payload) == Rejected(SetterError)

execute_binary_result(payload) ==
  LET result == getResult(payload.binaryPath, payload.args) IN
  Resolved("record", [success |-> result.success, exit_code |-> result.exitCode,
                      stdout |-> result.stdout, stderr |-> result.stderr])

\* the promise the dispatch function returns; write_project_file,
\* set_plugin_cookie, plugin_message and the default branch return null
HandledCommands ==
  {"read_project_file", "write_project_file", "list_project_files", "fetch_url",
   "download_asset", "get_plugin_cookie", "set_plugin_cookie", "open_plugin_browser",
   "close_plugin_browser", "execute_binary", "plugin_message"}

\* the default branch throws instead of returning null
UnhandledResult_Throws(cmd) == Rejected("Unhandled IPC command")

\* default: console.warn, return null
UnhandledResult(cmd) == ResolvedNull

MockResult(cmd, payload) ==
  IF cmd \notin HandledCommands THEN UnhandledResult(cmd) ELSE
  CASE cmd = "read_project_file" -> read_project_file_result(payload)
    [] cmd = "list_project_files" -> list_project_files_result(payload)
    [] cmd = "fetch_url" -> fetch_url_result(payload)
    [] cmd = "download_asset" -> download_asset_result(payload)
    [] cmd = "get_plugin_cookie" -> get_plugin_cookie_result(payload)
    [] cmd = "open_plugin_browser" -> open_plugin_browser_result(payload)
    [] cmd = "close_plugin_browser" -> close_plugin_browser_result(payload)
    [] cmd = "execute_binary" -> execute_binary_result(payload)
    [] OTHER -> ResolvedNull

\* what the dispatch function does to the stores
MockEffect(cmd, payload) ==
  CASE cmd = "write_project_file" -> write_project_file(payload)
    [] cmd = "fetch_url" -> fetch_url(payload)
    [] cmd = "download_asset" -> download_asset(payload)
    [] cmd = "set_plugin_cookie" -> set_plugin_cookie(payload)
    [] cmd = "open_plugin_browser" -> open_plugin_browser(payload)
    [] OTHER -> UNCHANGED storeVars

\* getTauriCore().invoke(cmd, payload) with a bridge present: the mock's
\* dispatch, or a bridge that rejects the command
BridgeResult(cmd, payload) ==
  IF bridge = "mock" THEN MockResult(cmd, payload) ELSE Rejected(HostError)

BridgeEffect(cmd, payload) ==
  IF bridge = "mock" THEN MockEffect(cmd, payload) ELSE UNCHANGED storeVars

(***************************************************************************)
(* Domain wrappers.  A call runs its synchronous part in one step: it      *)
(* reads the context, looks up the bridge, and hands the command to the    *)
(* bridge.  The promise it returned waits in pending until the caller      *)
(* observes it.                                                            *)
(***************************************************************************)
WriteContents == {"d1"}
MessageContexts == {[pluginName |-> <<"g">>, hookName |-> "on_build"],
                    [pluginName |-> <<"h">>, hookName |-> "on_deploy"]}
Messages == {[type |-> "log", level |-> "warn", message |-> "m"]}
ExecuteOptions == {[binaryPath |-> <<"g">>, args |-> << <<"x">> >>]}
DefaultTimeoutMs == 60000

\* the record of a wrapper call: the promise it returned and the commands it
\* handed to the bridge
\* a wrapper call: the promise it returned, the commands it invoked on the
\* bridge and the payload of each
Call(op, out, cmds, sent) == [op |-> op, out |-> out, cmds |-> cmds, sent |-> sent]

\* `return invoke(...)`: the wrapper's promise settles as the invocation does
PassThrough(out) == out

\* a wrapper that catches the failed invoke and returns normally
VoidResult_Swallow(out) == ResolvedUndefined

\* `await invoke(...)` in a function that returns nothing
VoidResult(out) == IF out.st = "resolved" THEN ResolvedUndefined ELSE out

\* fileExists answering true whatever the read did
ExistsResult_AlwaysTrue(out) == Resolved("bool", TRUE)

\* fileExists without its catch
ExistsResult_Rethrow(out) ==
  IF out.st = "resolved" THEN Resolved("bool", TRUE) ELSE out

\* fileExists: try { await readFile(); return true } catch { return false }
ExistsResult(out) ==
  IF out.st = "resolved" THEN Resolved("bool", TRUE) ELSE Resolved("bool", FALSE)

\* executeBinary: snake_case fields of the host's result to camelCase
BinaryResult(out) ==
  IF out.st = "resolved" /\ out.ty = "record"
  THEN Resolved("record", [success |-> out.val.success, exitCode |-> out.val.exit_code,
                           stdout |-> out.val.stdout, stderr |-> out.val.stderr])
  ELSE out

\* sendMessage without its catch
MessageResult_Rethrow(out) == VoidResult(out)

\* sendMessage: try { await invoke(...) } catch {}
MessageResult(out) == ResolvedUndefined

\* atob, on the bodies of the model's responses
atob(bodyBase64) ==
  IF bodyBase64 = "iVBORw0KGgo" THEN <<137, 80, 78, 71, 13, 10, 26, 10>> ELSE <<>>

\* fetchUrl's result: the body decoded, the fields in camelCase
FetchUrlResult(out) ==
  IF out.st = "resolved" /\ out.ty = "record"
  THEN Resolved("record", [status |-> out.val.status, ok |-> out.val.ok,
                           contentType |-> out.val.content_type,
                           body |-> atob(out.val.body_base64)])
  ELSE out

\* downloadAsset's result: the host's snake_case record in camelCase; a
\* rejection of the invoke, or getTauriCore's throw, is the wrapper's rejection
DownloadAssetResult(out) ==
  IF out.st = "resolved" /\ out.ty = "record"
  THEN Resolved("record", [status |-> out.val.status, ok |-> out.val.ok,
                           contentType |-> out.val.content_type,
                           bytesWritten |-> out.val.bytes_written,
                           actualPath |-> out.val.actual_path])
  ELSE out

Shape(kind, out) ==
  CASE kind = "pass" -> PassThrough(out)
    [] kind = "void" -> VoidResult(out)
    [] kind = "exists" -> ExistsResult(out)
    [] kind = "binary" -> BinaryResult(out)
    [] kind = "message" -> MessageResult(out)
    [] kind = "fetch" -> FetchUrlResult(out)
    [] kind = "download" -> DownloadAssetResult(out)

\* The body shared by the context-dependent wrappers: getInternalContext(),
\* then getTauriCore(), then one invoke.  A throw of getInternalContext is the
\* wrapper's failure; a throw of getTauriCore or a rejected invoke passes
\* through the wrapper's own handling (kind).
Invokes == getInternalContext.st = "resolved" /\ getTauriCore.st = "resolved"

\* a wrapper that looks the bridge up before it reads the context
CallOutcome_BridgeFirst(cmd, payload, kind) ==
  IF getTauriCore.st = "rejected" THEN Shape(kind, getTauriCore)
  ELSE IF getInternalContext.st = "rejected" THEN getInternalContext
  ELSE Shape(kind, BridgeResult(cmd, payload))

CallOutcome(cmd, payload, kind) ==
  IF getInternalContext.st = "rejected" THEN getInternalContext
  ELSE IF getTauriCore.st = "rejected" THEN Shape(kind, getTauriCore)
  ELSE Shape(kind, BridgeResult(cmd, payload))

\* a wrapper that hands the command to the bridge before it checks the context
ContextCall_InvokesBeforeCheck(op, cmd, payload, kind) ==
  /\ Len(pending) < MaxPending
  /\ pending' = Append(pending, Call(op, CallOutcome(cmd, payload, kind),
                                     IF getTauriCore.st = "resolved" THEN <<cmd>> ELSE <<>>,
                                     IF Invokes THEN <<payload>>
                                     ELSE IF getTauriCore.st = "resolved" THEN <<EmptyMap>>
                                     ELSE <<>>))
  /\ IF Invokes THEN BridgeEffect(cmd, payload) ELSE UNCHANGED storeVars
  /\ UNCHANGED <<envVars, now, ret>>

ContextCall(op, cmd, payload, kind) ==
  /\ Len(pending) < MaxPending
  /\ pending' = Append(pending, Call(op, CallOutcome(cmd, payload, kind),
                                     IF Invokes THEN <<cmd>> ELSE <<>>,
                                     IF Invokes THEN <<payload>> ELSE <<>>))
  /\ IF Invokes THEN BridgeEffect(cmd, payload) ELSE UNCHANGED storeVars
  /\ UNCHANGED <<envVars, now, ret>>

\* a wrapper that keeps the context of the first hook it ran in
ctx_FirstHook == CtxA

\* `const ctx = getInternalContext()`, read once when the wrapper is called
ctx == getInternalContext.val

ReadFilePayload(relativePath) ==
  [projectPath |-> ctx.project_path, relativePath |-> relativePath]

\* the promise readFile(relativePath) returns in the current state
readFile_result(relativePath) ==
  CallOutcome("read_project_file", ReadFilePayload(relativePath), "pass")

readFile(relativePath) ==
  ContextCall("readFile", "read_project_file", ReadFilePayload(relativePath), "pass")

writeFile(relativePath, content) ==
  ContextCall("writeFile", "write_project_file",
              [projectPath |-> ctx.project_path, relativePath |-> relativePath,
               data |-> content], "void")

listFiles ==
  ContextCall("listFiles", "list_project_files", [projectPath |-> ctx.project_path], "pass")

fileExists(relativePath) ==
  ContextCall("fileExists", "read_project_file", ReadFilePayload(relativePath), "exists")

readPluginFile(relativePath) ==
  ContextCall("readPluginFile", "read_plugin_file",
              [pluginName |-> ctx.plugin_name, projectPath |-> ctx.project_path,
               relativePath |-> relativePath], "pass")

writePluginFile(relativePath, content) ==
  ContextCall("writePluginFile", "write_plugin_file",
              [pluginName |-> ctx.plugin_name, projectPath |-> ctx.project_path,
               relativePath |-> relativePath, content |-> content], "void")

listPluginFiles ==
  ContextCall("listPluginFiles", "list_plugin_files",
              [pluginName |-> ctx.plugin_name, projectPath |-> ctx.project_path], "pass")

pluginFileExists(relativePath) ==
  ContextCall("pluginFileExists", "plugin_file_exists",
              [pluginName |-> ctx.plugin_name, projectPath |-> ctx.project_path,
               relativePath |-> relativePath], "pass")

\* const { binaryPath, args, timeoutMs = 60000, env } = options
OptionOr(options, field, default) ==
  IF field \in DOMAIN options THEN options[field] ELSE default

\* a wrapper that lets an option of the caller choose the working directory
executeBinary_CallerWorkingDir(options) ==
  ContextCall("executeBinary", "execute_binary",
              [binaryPath |-> options.binaryPath, args |-> options.args,
               workingDir |-> OptionOr(options, "workingDir", ctx.project_path),
               timeoutMs |-> OptionOr(options, "timeoutMs", DefaultTimeoutMs),
               env |-> OptionOr(options, "env", "undefined")], "binary")

executeBinary(options) ==
  ContextCall("executeBinary", "execute_binary",
              [binaryPath |-> options.binaryPath, args |-> options.args,
               workingDir |-> ctx.project_path,
               timeoutMs |-> OptionOr(options, "timeoutMs", DefaultTimeoutMs),
               env |-> OptionOr(options, "env", "undefined")], "binary")

getPluginCookie ==
  ContextCall("getPluginCookie", "get_plugin_cookie",
              [pluginName |-> ctx.plugin_name, projectPath |-> ctx.project_path], "pass")

setPluginCookie(cookieList) ==
  ContextCall("setPluginCookie", "set_plugin_cookie",
              [pluginName |-> ctx.plugin_name, projectPath |-> ctx.project_path,
               cookies |-> cookieList], "void")

\* The body of the wrappers that take no context: getTauriCore(), then one
\* invoke.
FreeOutcome(cmd, payload, kind) ==
  IF getTauriCore.st = "rejected" THEN Shape(kind, getTauriCore)
  ELSE Shape(kind, BridgeResult(cmd, payload))

FreeCall(op, cmd, payload, kind) ==
  /\ Len(pending) < MaxPending
  /\ pending' = Append(pending, Call(op, FreeOutcome(cmd, payload, kind),
                                     IF getTauriCore.st = "resolved" THEN <<cmd>> ELSE <<>>,
                                     IF getTauriCore.st = "resolved" THEN <<payload>> ELSE <<>>))
  /\ IF getTauriCore.st = "resolved" THEN BridgeEffect(cmd, payload)
     ELSE UNCHANGED storeVars
  /\ UNCHANGED <<envVars, now, ret>>

openBrowser(url) == FreeCall("openBrowser", "open_plugin_browser", [url |-> url], "void")

closeBrowser == FreeCall("closeBrowser", "close_plugin_browser", EmptyMap, "void")

fetchUrl(url) ==
  FreeCall("fetchUrl", "fetch_url", [url |-> url, timeoutMs |-> 30000], "fetch")

\* downloadAsset(url, projectPath, targetDir), the promise left to the caller
downloadAsset_call(url, projectPath, targetDir) ==
  FreeCall("downloadAsset", "download_asset",
           [url |-> url, projectPath |-> projectPath, targetDir |-> targetDir,
            timeoutMs |-> 30000], "download")

\* a message sent without the context of the module
MessagePayload_NoContext(message) ==
  [pluginName |-> <<>>, hookName |-> "", message |-> message]

MessagePayload(message) ==
  [pluginName |-> msgCtx.pluginName, hookName |-> msgCtx.hookName, message |-> message]

\* the promise sendMessage returns
sendMessage_result(message) ==
  IF ~isTauriAvailable THEN ResolvedUndefined
  ELSE IF getTauriCore.st = "rejected" THEN Shape("message", getTauriCore)
  ELSE Shape("message", BridgeResult("plugin_message", MessagePayload(message)))

sendMessage(message) ==
  /\ Len(pending) < MaxPending
  /\ pending' = Append(pending,
                       Call("sendMessage", sendMessage_result(message),
                            IF isTauriAvailable /\ getTauriCore.st = "resolved"
                            THEN <<"plugin_message">> ELSE <<>>,
                            IF isTauriAvailable /\ getTauriCore.st = "resolved"
                            THEN <<MessagePayload(message)>> ELSE <<>>))
  /\ IF isTauriAvailable /\ getTauriCore.st = "resolved"
     THEN BridgeEffect("plugin_message", MessagePayload(message))
     ELSE UNCHANGED storeVars
  /\ UNCHANGED <<envVars, now, ret>>

\* a reportError whose fatal flag is true unless given
ErrorMessage_FatalByDefault(args) ==
  [type |-> "error", error |-> args.error,
   context |-> OptionOr(args, "context", "undefined"),
   fatal |-> OptionOr(args, "fatal", TRUE)]

\* { type: "error", error, context, fatal } with `fatal = false` by default;
\* args holds the arguments the caller gave
ErrorMessage(args) ==
  [type |-> "error", error |-> args.error,
   context |-> OptionOr(args, "context", "undefined"),
   fatal |-> OptionOr(args, "fatal", FALSE)]

\* reportError(error, context?, fatal = false)
reportError(args) == sendMessage(ErrorMessage(args))

setMessageContext(pluginName, hookName) ==
  /\ msgCtx' = [pluginName |-> pluginName, hookName |-> hookName]
  /\ UNCHANGED <<context, bridge, storeVars, now, ret, pending>>

\* getMessageContext()
getMessageContext ==
  /\ ret' = Op("getMessageContext", <<>>, Resolved("record", msgCtx))
  /\ UNCHANGED <<envVars, storeVars, now, pending>>

\* a caller asks whether it runs inside a hook
hasContext_call ==
  /\ ret' = Op("hasContext", <<>>, Resolved("bool", hasContext))
  /\ UNCHANGED <<envVars, storeVars, now, pending>>

\* a caller reads the hook context
getInternalContext_call ==
  /\ ret' = Op("getInternalContext", <<>>, getInternalContext)
  /\ UNCHANGED <<envVars, storeVars, now, pending>>

\* the caller observes the promise of one of its calls
Settle(i) ==
  /\ i \in 1..Len(pending)
  /\ pending' = SubSeq(pending, 1, i - 1) \o SubSeq(pending, i + 1, Len(pending))
  /\ UNCHANGED <<envVars, storeVars, now, ret>>

(***************************************************************************)
(* The host and the test harness.                                          *)
(***************************************************************************)
\* the host writes the context before it runs a hook
SetContext(c) ==
  /\ context' = c
  /\ UNCHANGED <<bridge, msgCtx, storeVars, now, ret, pending>>

\* the host clears the context after the hook (undefined, deleted, or null)
ClearContext(c) ==
  /\ ContextIsSet
  /\ context' = c
  /\ UNCHANGED <<bridge, msgCtx, storeVars, now, ret, pending>>

FreshStores ==
  /\ files' = EmptyMap
  /\ activeDownloads' = 0
  /\ maxConcurrent' = 0
  /\ completedDownloads' = <<>>
  /\ failedDownloads' = <<>>
  /\ started' = 0
  /\ responses' = EmptyMap
  /\ callCounts' = EmptyMap
  /\ lookups' = [u \in Urls |-> 0]
  /\ results' = EmptyMap
  /\ cookies' = EmptyMap
  /\ openedUrls' = <<>>
  /\ closeCount' = 0
  /\ isOpen' = FALSE

\* setupMockTauri(): fresh stores, and the dispatch function installed; the
\* timers of an earlier mock act on its stores, which are gone
setupMockTauri ==
  /\ bridge # "mock"
  /\ FreshStores
  /\ timers' = <<>>
  /\ bridge' = "mock"
  /\ UNCHANGED <<context, msgCtx, now, ret, pending>>

\* a cleanup that forgets urlConfig.reset()
cleanup_SkipsUrlReset ==
  /\ bridge = "mock"
  /\ files' = EmptyMap
  /\ activeDownloads' = 0
  /\ maxConcurrent' = 0
  /\ completedDownloads' = <<>>
  /\ failedDownloads' = <<>>
  /\ started' = 0
  /\ results' = EmptyMap
  /\ cookies' = EmptyMap
  /\ openedUrls' = <<>>
  /\ closeCount' = 0
  /\ isOpen' = FALSE
  /\ bridge' = "absent"
  /\ UNCHANGED <<urlVars, context, msgCtx, timers, now, ret, pending>>

\* cleanup(): the bridge removed and every store reset; pending timers stay
cleanup ==
  /\ bridge = "mock"
  /\ FreshStores
  /\ bridge' = "absent"
  /\ UNCHANGED <<context, msgCtx, timers, now, ret, pending>>

\* a test installs a bridge whose invoke rejects, or removes the bridge
InstallRejectingBridge ==
  /\ bridge = "absent"
  /\ bridge' = "reject"
  /\ UNCHANGED <<context, msgCtx, storeVars, now, ret, pending>>

RemoveBridge ==
  /\ bridge = "reject"
  /\ bridge' = "absent"
  /\ UNCHANGED <<context, msgCtx, storeVars, now, ret, pending>>

Init ==
  /\ context = NoContext("undefined")
  /\ bridge = "absent"
  /\ msgCtx = [pluginName |-> <<>>, hookName |-> ""]
  /\ files = EmptyMap
  /\ now = 0
  /\ activeDownloads = 0
  /\ maxConcurrent = 0
  /\ completedDownloads = <<>>
  /\ failedDownloads = <<>>
  /\ started = 0
  /\ responses = EmptyMap
  /\ callCounts = EmptyMap
  /\ lookups = [u \in Urls |-> 0]
  /\ results = EmptyMap
  /\ cookies = EmptyMap
  /\ openedUrls = <<>>
  /\ closeCount = 0
  /\ isOpen = FALSE
  /\ timers = <<>>
  /\ ret = NoOp
  /\ pending = <<>>

(***************************************************************************)
(* The wrappers, driven by a host that sets and clears the context and a   *)
(* harness that installs and removes bridges.                              *)
(***************************************************************************)
\* the relative paths the hooks pass to the wrappers
CallPaths == {<<"b">>}

NextWrappers ==
  \/ \E c \in ContextRecords : SetContext(c)
  \/ \E c \in ClearedValues : ClearContext(c)
  \/ setupMockTauri
  \/ cleanup
  \/ InstallRejectingBridge
  \/ RemoveBridge
  \/ \E m \in MessageContexts : setMessageContext(m.pluginName, m.hookName)
  \/ \E r \in CallPaths : readFile(r)
  \/ \E r \in CallPaths, d \in WriteContents : writeFile(r, d)
  \/ listFiles
  \/ \E r \in CallPaths : fileExists(r)
  \/ \E r \in CallPaths : readPluginFile(r)
  \/ \E r \in CallPaths, d \in WriteContents : writePluginFile(r, d)
  \/ listPluginFiles
  \/ \E r \in CallPaths : pluginFileExists(r)
  \/ \E o \in ExecuteOptions : executeBinary(o)
  \/ getPluginCookie
  \/ \E l \in CookieLists : setPluginCookie(l)
  \/ \E m \in Messages : sendMessage(m)
  \/ \E i \in 1..MaxPending : Settle(i)

SpecWrappers == Init /\ [][NextWrappers]_vars

(***************************************************************************)
(* The mock used directly: a test calls the stores' methods and the        *)
(* dispatch function, and awaits each call.                                *)
(***************************************************************************)
\* window.__TAURI__.core.invoke(cmd, payload) on the mock, awaited
Invoke(cmd, payload) ==
  /\ bridge = "mock"
  /\ ret' = Op(cmd, payload, MockResult(cmd, payload))
  /\ MockEffect(cmd, payload)
  /\ UNCHANGED <<envVars, now, pending>>

\* the clock moves on
Tick ==
  /\ now < MaxTime
  /\ now' = now + 1
  /\ UNCHANGED <<envVars, storeVars, ret, pending>>

\* filesystem.setFile(path, content)
setFile(path, content) ==
  /\ bridge = "mock"
  /\ ret' = Op("setFile", [path |-> path, content |-> content], ResolvedUndefined)
  /\ files' = SetFileIn(files, path, content, now)
  /\ UNCHANGED <<envVars, trackerVars, urlVars, results, cookies, browserVars, timers, now, pending>>

\* filesystem.deleteFile(path)
deleteFile(path) ==
  /\ bridge = "mock"
  /\ ret' = Op("deleteFile", [path |-> path], Resolved("bool", HasFile(path)))
  /\ files' = DeleteFileIn(files, path)
  /\ UNCHANGED <<envVars, trackerVars, urlVars, results, cookies, browserVars, timers, now, pending>>

\* filesystem.clear()
clear ==
  /\ bridge = "mock"
  /\ ret' = Op("clear", <<>>, ResolvedUndefined)
  /\ files' = EmptyMap
  /\ UNCHANGED <<envVars, trackerVars, urlVars, results, cookies, browserVars, timers, now, pending>>

\* pattern.replace(/\*/g, ".*").replace(/\?/g, "."): the source of the regular
\* expression, every other character of the pattern copied as it is
RECURSIVE GlobToRegex(_)
GlobToRegex(pattern) ==
  IF pattern = <<>> THEN <<>>
  ELSE (CASE Head(pattern) = "*" -> <<".", "*">>
          [] Head(pattern) = "?" -> <<".">>
          [] OTHER -> <<Head(pattern)>>) \o GlobToRegex(Tail(pattern))

\* one atom of a regular expression against one character: `.` is any
\* character, another character is itself
AtomMatches(atom, c) == atom = "." \/ atom = c

RECURSIVE RegexTest(_, _)
\* new RegExp("^" + source + "$").test(p), for sources made of characters,
\* `.` and `*` after an atom
RegexTest(source, p) ==
  IF source = <<>> THEN p = <<>>
  ELSE IF Len(source) >= 2 /\ source[2] = "*"
  THEN \/ RegexTest(Tail(Tail(source)), p)
       \/ p # <<>> /\ AtomMatches(source[1], p[1]) /\ RegexTest(source, Tail(p))
  ELSE p # <<>> /\ AtomMatches(source[1], p[1]) /\ RegexTest(Tail(source), Tail(p))

\* filesystem.listFiles(pattern): `!pattern` holds of a pattern left out and
\* of the empty string; the listing is a set, the order of the keys is not
\* modelled
listFiles_result(pattern) ==
  IF ~pattern.given \/ pattern.text = <<>> THEN Resolved("list", DOMAIN files)
  ELSE Resolved("list", {p \in DOMAIN files : RegexTest(GlobToRegex(pattern.text), p)})

listFiles_call(pattern) ==
  /\ bridge = "mock"
  /\ ret' = Op("listFiles", pattern, listFiles_result(pattern))
  /\ UNCHANGED <<envVars, storeVars, now, pending>>

\* urlConfig.setResponse(url, response)
setResponse(url, response) ==
  /\ bridge = "mock"
  /\ ret' = Op("setResponse", [url |-> url], ResolvedUndefined)
  /\ responses' = [q \in (DOMAIN responses) \cup {url} |->
                     IF q = url THEN response ELSE responses[q]]
  /\ callCounts' = [q \in (DOMAIN callCounts) \cup {url} |->
                      IF q = url THEN 0 ELSE callCounts[q]]
  /\ lookups' = [lookups EXCEPT ![url] = 0]
  /\ UNCHANGED <<envVars, files, trackerVars, results, cookies, browserVars, timers, now, pending>>

\* urlConfig.getResponse(url)
getResponse(url) ==
  /\ bridge = "mock"
  /\ ret' = Op("getResponse", [url |-> url],
               IF ResponseFor(url).kind = "undefined" THEN ResolvedUndefined
               ELSE Resolved("record", ResponseFor(url)))
  /\ GetResponseStep(url)
  /\ UNCHANGED <<envVars, files, trackerVars, results, cookies, browserVars, timers, now, pending>>

\* urlConfig.reset()
resetUrlConfig ==
  /\ bridge = "mock"
  /\ ret' = Op("urlConfig.reset", <<>>, ResolvedUndefined)
  /\ responses' = EmptyMap
  /\ callCounts' = EmptyMap
  /\ lookups' = [u \in Urls |-> 0]
  /\ UNCHANGED <<envVars, files, trackerVars, results, cookies, browserVars, timers, now, pending>>

\* downloadTracker.startDownload(url)
startDownload(url) ==
  /\ bridge = "mock"
  /\ started < MaxDownloads
  /\ ret' = Op("startDownload", [url |-> url], ResolvedUndefined)
  /\ StartDownloadStep(url)
  /\ UNCHANGED <<completedDownloads, failedDownloads>>
  /\ UNCHANGED <<envVars, files, urlVars, results, cookies, browserVars, timers, now, pending>>

\* downloadTracker.endDownload(url, success, error)
endDownload(url, success, error) ==
  /\ bridge = "mock"
  /\ Ended < MaxDownloads
  /\ ret' = Op("endDownload", [url |-> url], ResolvedUndefined)
  /\ EndDownloadFrom(activeDownloads, url, success, error)
  /\ UNCHANGED <<maxConcurrent, started>>
  /\ UNCHANGED <<envVars, files, urlVars, results, cookies, browserVars, timers, now, pending>>

\* downloadTracker.reset()
resetTracker ==
  /\ bridge = "mock"
  /\ ret' = Op("downloadTracker.reset", <<>>, ResolvedUndefined)
  /\ activeDownloads' = 0
  /\ maxConcurrent' = 0
  /\ completedDownloads' = <<>>
  /\ failedDownloads' = <<>>
  /\ started' = 0
  /\ UNCHANGED <<envVars, files, urlVars, results, cookies, browserVars, timers, now, pending>>

\* A delayed response's setTimeout callback runs: timers of equal delay run
\* in the order they were set, none before it is due.  The callback of a
\* download ends it in the tracker; the promise then resolves.
FireTimer ==
  /\ Len(timers) > 0
  /\ \A j \in 1..Len(timers) : timers[1].due <= timers[j].due
  /\ timers[1].due <= now
  /\ ret' = Op(timers[1].cmd, [url |-> timers[1].url], timers[1].result)
  /\ timers' = Tail(timers)
  /\ IF timers[1].cmd = "download_asset"
     THEN /\ EndDownloadFrom(activeDownloads, timers[1].url, timers[1].ok, "")
          /\ UNCHANGED <<maxConcurrent, started>>
     ELSE UNCHANGED trackerVars
  /\ UNCHANGED <<envVars, files, urlVars, results, cookies, browserVars, now, pending>>

\* binaryConfig.setResult(key, result)
setResult(key, result) ==
  /\ bridge = "mock"
  /\ ret' = Op("setResult", [key |-> key], ResolvedUndefined)
  /\ results' = [q \in (DOMAIN results) \cup {key} |->
                   IF q = key THEN result ELSE results[q]]
  /\ UNCHANGED <<envVars, files, trackerVars, urlVars, cookies, browserVars, timers, now, pending>>

\* binaryConfig.getResult(binaryPath, args), called by a test
getResultCall(binaryPath, args) ==
  /\ bridge = "mock"
  /\ ret' = Op("getResult", [binaryPath |-> binaryPath, args |-> args],
               Resolved("record", getResult(binaryPath, args)))
  /\ UNCHANGED <<envVars, storeVars, now, pending>>

\* binaryConfig.reset()
resetBinaryConfig ==
  /\ bridge = "mock"
  /\ ret' = Op("binaryConfig.reset", <<>>, ResolvedUndefined)
  /\ results' = EmptyMap
  /\ UNCHANGED <<envVars, files, trackerVars, urlVars, cookies, browserVars, timers, now, pending>>

FsContents == {"d1", "d2"}

NextFs ==
  \/ setupMockTauri
  \/ cleanup
  \/ Tick
  \/ \E path \in FullPaths, d \in FsContents : setFile(path, d)
  \/ \E path \in FullPaths : deleteFile(path)
  \/ clear
  \/ \E P \in ProjectPaths, r \in RelPaths :
       Invoke("read_project_file", [projectPath |-> P, relativePath |-> r])
  \/ \E P \in ProjectPaths, r \in RelPaths, d \in FsContents :
       Invoke("write_project_file", [projectPath |-> P, relativePath |-> r, data |-> d])

SpecFs == Init /\ [][NextFs]_vars

\* the URL registry: registrations, lookups and fetches
UrlRegistrations ==
  {Single(RespOk), Array(<<>>), Array(<<RespNotFound>>), Array(<<RespNetwork, RespOk>>),
   Array(<<RespNotFound, RespNetwork, RespOk>>)}

NextUrl ==
  \/ setupMockTauri
  \/ cleanup
  \/ \E u \in Urls, c \in UrlRegistrations : setResponse(u, c)
  \/ \E u \in Urls : getResponse(u)
  \/ resetUrlConfig
  \/ \E u \in Urls : Invoke("fetch_url", [url |-> u, timeoutMs |-> 30000])

SpecUrl == Init /\ [][NextUrl]_vars

\* downloads through the mock, some of them delayed
DownloadUrls == {"https://h/u1"}
RespNetworkOk == Resp(0, TRUE, 0)
DownloadRegistrations ==
  {Single(RespNetwork), Single(RespNetworkOk), Single(RespNetworkSlow), Single(RespSlow),
   Array(<<RespNotFound, RespOk>>), Array(<<>>)}

DownloadPayload(u) ==
  [url |-> u, projectPath |-> <<"p">>, targetDir |-> "assets", timeoutMs |-> 30000]

downloadAsset_result(url, projectPath, targetDir) ==
  IF getTauriCore.st = "rejected" THEN getTauriCore
  ELSE DownloadAssetResult(
         BridgeResult("download_asset", [url |-> url, projectPath |-> projectPath,
                                         targetDir |-> targetDir, timeoutMs |-> 30000]))

\* downloadAsset(url, projectPath, targetDir), awaited
downloadAsset(url, projectPath, targetDir) ==
  /\ ret' = Op("downloadAsset", [url |-> url], downloadAsset_result(url, projectPath, targetDir))
  /\ IF getTauriCore.st = "rejected" THEN UNCHANGED storeVars
     ELSE BridgeEffect("download_asset", [url |-> url, projectPath |-> projectPath,
                                          targetDir |-> targetDir, timeoutMs |-> 30000])
  /\ UNCHANGED <<envVars, now, pending>>

NextDownload ==
  \/ setupMockTauri
  \/ cleanup
  \/ Tick
  \/ \E u \in DownloadUrls, c \in DownloadRegistrations : setResponse(u, c)
  \/ \E u \in DownloadUrls : Invoke("download_asset", DownloadPayload(u))
  \/ \E u \in DownloadUrls : downloadAsset(u, <<"p">>, "assets")
  \/ FireTimer
  \/ resetTracker

SpecDownload == Init /\ [][NextDownload]_vars

\* the download tracker driven by hand
EndErrors == {"", "boom"}

NextTracker ==
  \/ setupMockTauri
  \/ cleanup
  \/ \E u \in Urls : startDownload(u)
  \/ \E u \in Urls, success \in BOOLEAN, e \in EndErrors : endDownload(u, success, e)
  \/ resetTracker

SpecTracker == Init /\ [][NextTracker]_vars

\* the binary registry
BinaryPaths == {<<"g">>, <<"h">>}
BinaryArgs == {<<>>, << <<"x">> >>, << <<"x">>, <<>> >>}
BinaryKeys == {<<"g">>, <<"g", " ", "x">>, <<"h">>, <<"g", " ", "x", " ">>}

NextBinary ==
  \/ setupMockTauri
  \/ cleanup
  \/ \E k \in BinaryKeys, r \in BinaryResults : setResult(k, r)
  \/ \E b \in BinaryPaths, a \in BinaryArgs : getResultCall(b, a)
  \/ resetBinaryConfig
  \/ \E b \in BinaryPaths, a \in BinaryArgs :
       Invoke("execute_binary", [binaryPath |-> b, args |-> a, workingDir |-> <<"p">>,
                                 timeoutMs |-> DefaultTimeoutMs, env |-> "undefined"])

SpecBinary == Init /\ [][NextBinary]_vars

\* browserTracker.reset()
resetBrowserTracker ==
  /\ bridge = "mock"
  /\ ret' = Op("browserTracker.reset", <<>>, ResolvedUndefined)
  /\ openedUrls' = <<>>
  /\ closeCount' = 0
  /\ isOpen' = FALSE
  /\ UNCHANGED <<envVars, files, trackerVars, urlVars, results, cookies, timers, now, pending>>

\* the whole mock: every store written through the dispatch function or its
\* own methods, commands without a handler, and cleanup
MockPath == <<"p", "/", "b">>
MockUrl == "https://h/u1"
MockRegistrations == {Single(RespSlow), Array(<<RespNetwork, RespOk>>)}
BrowserUrls == {"https://h/u1", "https://h/u2.jpg"}
UnknownCommands == {"read_plugin_file", "refresh_index"}
UnknownPayload == [projectPath |-> <<"p">>]
MockCookiePayload ==
  [pluginName |-> <<"g">>, projectPath |-> <<"p">>,
   cookies |-> <<[name |-> "s", value |-> "1"]>>]

NextMock ==
  \/ setupMockTauri
  \/ cleanup
  \/ setFile(MockPath, "d1")
  \/ \E c \in MockRegistrations : setResponse(MockUrl, c)
  \/ Invoke("download_asset", DownloadPayload(MockUrl))
  \/ setResult(<<"g">>, ResultFail)
  \/ Invoke("set_plugin_cookie", MockCookiePayload)
  \/ \E u \in BrowserUrls : Invoke("open_plugin_browser", [url |-> u])
  \/ Invoke("close_plugin_browser", [url |-> "undefined"])
  \/ resetBrowserTracker
  \/ \E c \in UnknownCommands : Invoke(c, UnknownPayload)

SpecMock == Init /\ [][NextMock]_vars

\* cookieStorage.setCookies(pluginName, projectPath, newCookies)
setCookies(pluginName, projectPath, newCookies) ==
  /\ bridge = "mock"
  /\ ret' = Op("setCookies", <<>>, ResolvedUndefined)
  /\ set_plugin_cookie([pluginName |-> pluginName, projectPath |-> projectPath,
                        cookies |-> newCookies])
  /\ UNCHANGED <<envVars, now, pending>>

\* cookieStorage.getCookies(pluginName, projectPath), called by a test
getCookiesCall(pluginName, projectPath) ==
  /\ bridge = "mock"
  /\ ret' = Op("getCookies", <<>>, Resolved("list", getCookies(pluginName, projectPath)))
  /\ UNCHANGED <<envVars, storeVars, now, pending>>

\* cookieStorage.clear()
clearCookies ==
  /\ bridge = "mock"
  /\ ret' = Op("cookieStorage.clear", <<>>, ResolvedUndefined)
  /\ cookies' = EmptyMap
  /\ UNCHANGED <<envVars, files, trackerVars, urlVars, results, browserVars, timers, now, pending>>

\* the cookie store: plugin names and project paths are any strings
CookiePlugins == {<<"g">>, <<"g", ":", "p">>}
CookieProjects == {<<"q">>, <<"p", ":", "q">>}
CookiePayload(p, j) == [pluginName |-> p, projectPath |-> j]
SetCookiePayload(p, j, l) == [pluginName |-> p, projectPath |-> j, cookies |-> l]

NextCookies ==
  \/ setupMockTauri
  \/ cleanup
  \/ \E p \in CookiePlugins, j \in CookieProjects, l \in CookieLists : setCookies(p, j, l)
  \/ \E p \in CookiePlugins, j \in CookieProjects : getCookiesCall(p, j)
  \/ clearCookies
  \/ \E p \in CookiePlugins, j \in CookieProjects :
       Invoke("get_plugin_cookie", CookiePayload(p, j))
  \/ \E p \in CookiePlugins, j \in CookieProjects, l \in CookieLists :
       Invoke("set_plugin_cookie", SetCookiePayload(p, j, l))

SpecCookies == Init /\ [][NextCookies]_vars

\* every wrapper, called by a hook of one plugin against each kind of bridge
CallContexts == {NoContext("undefined"), CtxA}

NextCalls ==
  \/ \E c \in CallContexts : SetContext(c)
  \/ setupMockTauri
  \/ cleanup
  \/ InstallRejectingBridge
  \/ RemoveBridge
  \/ \E r \in CallPaths : readFile(r)
  \/ \E r \in CallPaths, d \in WriteContents : writeFile(r, d)
  \/ listFiles
  \/ \E r \in CallPaths : fileExists(r)
  \/ \E r \in CallPaths : readPluginFile(r)
  \/ \E r \in CallPaths, d \in WriteContents : writePluginFile(r, d)
  \/ listPluginFiles
  \/ \E r \in CallPaths : pluginFileExists(r)
  \/ \E o \in ExecuteOptions : executeBinary(o)
  \/ getPluginCookie
  \/ setPluginCookie(<<[name |-> "s", value |-> "1"]>>)
  \/ \E m \in Messages : sendMessage(m)
  \/ openBrowser(MockUrl)
  \/ closeBrowser
  \/ fetchUrl(MockUrl)
  \/ downloadAsset_call(MockUrl, <<"p">>, "assets")
  \/ \E i \in 1..MaxPending : Settle(i)

SpecCalls == Init /\ [][NextCalls]_vars

\* the arguments reportError is called with
ErrorArgs ==
  {[error |-> "x"], [error |-> "x", context |-> "ctx"],
   [error |-> "x", context |-> "ctx", fatal |-> TRUE],
   [error |-> "x", context |-> "ctx", fatal |-> FALSE]}

\* the messaging module: the runtime sets the message context, hooks send
\* messages and read the context back
NextMessaging ==
  \/ setupMockTauri
  \/ cleanup
  \/ InstallRejectingBridge
  \/ RemoveBridge
  \/ \E m \in MessageContexts : setMessageContext(m.pluginName, m.hookName)
  \/ getMessageContext
  \/ \E m \in Messages : sendMessage(m)
  \/ \E a \in ErrorArgs : reportError(a)
  \/ \E i \in 1..MaxPending : Settle(i)

SpecMessaging == Init /\ [][NextMessaging]_vars

\* the wrappers that name a directory of the project, called by hooks of two
\* projects with whatever options and paths the caller likes
ProjectOptions ==
  {[binaryPath |-> <<"g">>, args |-> << <<"x">> >>],
   [binaryPath |-> <<"g">>, args |-> << <<"x">> >>, timeoutMs |-> 5],
   [binaryPath |-> <<"g">>, args |-> << <<"x">> >>, workingDir |-> <<"q">>],
   [binaryPath |-> <<"g">>, args |-> <<>>, workingDir |-> <<"q">>, env |-> "E"]}
CallerPaths == {<<"p">>, <<"q">>}

NextProject ==
  \/ \E c \in ContextRecords : SetContext(c)
  \/ \E c \in ClearedValues : ClearContext(c)
  \/ setupMockTauri
  \/ cleanup
  \/ InstallRejectingBridge
  \/ RemoveBridge
  \/ \E o \in ProjectOptions : executeBinary(o)
  \/ \E P \in CallerPaths : downloadAsset_call(MockUrl, P, "assets")
  \/ \E i \in 1..MaxPending : Settle(i)

SpecProject == Init /\ [][NextProject]_vars

\* the hook context over the life of hooks: the host sets it, clears it or
\* replaces it while wrappers are called and their invocations are in flight
NextContext ==
  \/ \E c \in ContextRecords : SetContext(c)
  \/ \E c \in ClearedValues : ClearContext(c)
  \/ hasContext_call
  \/ getInternalContext_call
  \/ setupMockTauri
  \/ cleanup
  \/ \E r \in CallPaths : readFile(r)
  \/ \E r \in CallPaths, d \in WriteContents : writeFile(r, d)
  \/ listFiles
  \/ \E r \in CallPaths : fileExists(r)
  \/ \E r \in CallPaths : readPluginFile(r)
  \/ \E r \in CallPaths, d \in WriteContents : writePluginFile(r, d)
  \/ listPluginFiles
  \/ \E r \in CallPaths : pluginFileExists(r)
  \/ \E o \in ExecuteOptions : executeBinary(o)
  \/ getPluginCookie
  \/ setPluginCookie(<<[name |-> "s", value |-> "1"]>>)
  \/ \E i \in 1..MaxPending : Settle(i)

SpecContext == Init /\ [][NextContext]_vars

\* fetches and downloads of responses that declare a delay, of every status
RespSlower == Resp(200, TRUE, 2)
DelayUrls == {"https://h/u1"}
DelayRegistrations ==
  {Single(RespSlower), Single(RespNetworkSlow), Array(<<RespSlowFail, RespOk>>)}
FetchPayload(u) == [url |-> u, timeoutMs |-> 30000]

NextDelay ==
  \/ setupMockTauri
  \/ cleanup
  \/ Tick
  \/ \E u \in DelayUrls, c \in DelayRegistrations : setResponse(u, c)
  \/ \E u \in DelayUrls : Invoke("fetch_url", FetchPayload(u))
  \/ \E u \in DelayUrls : Invoke("download_asset", DownloadPayload(u))
  \/ FireTimer

SpecDelay == Init /\ [][NextDelay]_vars

\* listings of the mock filesystem by pattern
ListPaths == {<<"a", ".", "m">>, <<"a", "x", "m">>, <<"a", "m">>, <<"b">>}
NoPattern == [given |-> FALSE, text |-> <<>>]
Pattern(text) == [given |-> TRUE, text |-> text]
Patterns ==
  {NoPattern, Pattern(<<>>), Pattern(<<"*">>), Pattern(<<"a", "?", "m">>),
   Pattern(<<"a", ".", "m">>), Pattern(<<"*", ".", "m">>), Pattern(<<"a", "*", "m">>),
   Pattern(<<"b">>)}

NextList ==
  \/ setupMockTauri
  \/ cleanup
  \/ \E path \in ListPaths, d \in FsContents : setFile(path, d)
  \/ \E path \in ListPaths : deleteFile(path)
  \/ clear
  \/ \E pattern \in Patterns : listFiles_call(pattern)

SpecList == Init /\ [][NextList]_vars

\* lookups of two URLs registered with sequences, by getResponse, fetch_url
\* and download_asset
SequenceRegistrations ==
  {Single(RespOk), Array(<<RespNotFound, RespOk>>)}

NextSequence ==
  \/ setupMockTauri
  \/ cleanup
  \/ \E u \in Urls, c \in SequenceRegistrations : setResponse(u, c)
  \/ \E u \in Urls : getResponse(u)
  \/ resetUrlConfig
  \/ \E u \in Urls : Invoke("fetch_url", FetchPayload(u))
  \/ \E u \in Urls : Invoke("download_asset", DownloadPayload(u))

SpecSequence == Init /\ [][NextSequence]_vars

(***************************************************************************)
(* Properties of the wrappers.                                             *)
(***************************************************************************)
ContextWrappers ==
  {"readFile", "writeFile", "listFiles", "fileExists", "readPluginFile",
   "writePluginFile", "listPluginFiles", "pluginFileExists", "executeBinary",
   "getPluginCookie", "setPluginCookie"}

\* this step is a wrapper call; NewCall is the record of it
IsCall == Len(pending') = Len(pending) + 1
NewCall == pending'[Len(pending')]

C2_SendMessageNeverFails ==
  [][(IsCall /\ NewCall.op = "sendMessage")
       => /\ NewCall.out = ResolvedUndefined
          /\ (bridge = "absent" => NewCall.cmds = <<>>)
          /\ (bridge # "absent" => NewCall.cmds = <<"plugin_message">>)]_vars

\* a message was handed to a bridge that rejects, and the call resolved
C2_Witness ==
  /\ bridge = "reject"
  /\ \E i \in 1..Len(pending) :
       /\ pending[i].op = "sendMessage"
       /\ pending[i].cmds = <<"plugin_message">>
       /\ pending[i].out = ResolvedUndefined

\* C3: with the hook context set, fileExists(p) answers true exactly when
\* readFile(p), called in the same state, would resolve; a missing file, a
\* rejected command and an absent bridge all give false.  readFile_result is
\* what readFile does return.
C3_FileExistsIffReadSucceeds ==
  [][\A r \in RelPaths :
       /\ (readFile(r) => NewCall.out = readFile_result(r))
       /\ (fileExists(r) /\ ContextIsSet)
            => NewCall.out = Resolved("bool", readFile_result(r).st = "resolved")]_vars

\* fileExists has answered true for a file the mock holds
C3_Witness ==
  /\ bridge = "mock"
  /\ ContextIsSet
  /\ \E r \in RelPaths : HasFile(Join(context.project_path, r))
  /\ \E i \in 1..Len(pending) :
       pending[i].op = "fileExists" /\ pending[i].out = Resolved("bool", TRUE)

\* C4 as stated: fileExists resolves to a boolean in every state of the hook
\* context and the bridge.
C4_FileExistsNeverRaises ==
  [][(IsCall /\ NewCall.op = "fileExists")
       => (NewCall.out.st = "resolved" /\ NewCall.out.ty = "bool")]_vars

\* C4 amended: with the hook context set, fileExists resolves to a boolean in
\* every state of the bridge; with the context unset it fails with the hook
\* error.
C4_FileExistsNeverRaisesInHook ==
  [][(IsCall /\ NewCall.op = "fileExists")
       => IF ContextIsSet
          THEN NewCall.out.st = "resolved" /\ NewCall.out.ty = "bool"
          ELSE NewCall.out = Rejected(HookError)]_vars

\* fileExists has answered false where readFile fails for want of a bridge
C4_Witness ==
  /\ bridge = "absent"
  /\ ContextIsSet
  /\ \E i \in 1..Len(pending) :
       pending[i].op = "fileExists" /\ pending[i].out = Resolved("bool", FALSE)

(***************************************************************************)
(* Properties of the mock filesystem.                                      *)
(***************************************************************************)
ReadPayload(P, r) == [projectPath |-> P, relativePath |-> r]
WritePayload(P, r, d) == [projectPath |-> P, relativePath |-> r, data |-> d]

\* a step that writes, deletes or clears the full path
Touches(path) ==
  \/ \E d \in FsContents : setFile(path, d)
  \/ \E P \in ProjectPaths, r \in RelPaths, d \in FsContents :
       Join(P, r) = path /\ Invoke("write_project_file", WritePayload(P, r, d))
  \/ deleteFile(path)
  \/ clear
  \/ cleanup
  \/ setupMockTauri

\* C9: after content d is written to (P, r), by write_project_file or by
\* setFile on "P/r", read_project_file of (P, r) resolves to exactly d; a
\* step that does not write, delete or clear that path leaves what the read
\* returns unchanged; and a read_project_file call returns just that.
C9_WriteThenReadRoundTrip ==
  [][\A P \in ProjectPaths, r \in RelPaths :
       /\ \A d \in FsContents :
            (Invoke("write_project_file", WritePayload(P, r, d)) \/ setFile(Join(P, r), d))
              => read_project_file_result(ReadPayload(P, r))' = Resolved("string", d)
       /\ (read_project_file_result(ReadPayload(P, r))' # read_project_file_result(ReadPayload(P, r)))
            => Touches(Join(P, r))
       /\ Invoke("read_project_file", ReadPayload(P, r))
            => ret'.out = read_project_file_result(ReadPayload(P, r))]_vars

\* a read has returned the content of a file that was written twice
C9_Witness ==
  /\ ret.op = "read_project_file"
  /\ ret.out = Resolved("string", "d2")
  /\ \A path \in FullPaths :
       /\ HasFile(path)
       /\ files[path].content = (IF path = <<"p", "/", "a", "/", "b">> THEN "d2" ELSE "d1")
       /\ files[path].createdAt < files[path].modifiedAt

\* a step that writes the full path through either interface
Writes(path) ==
  \/ \E d \in FsContents : setFile(path, d)
  \/ \E P \in ProjectPaths, r \in RelPaths, d \in FsContents :
       Join(P, r) = path /\ Invoke("write_project_file", WritePayload(P, r, d))

\* C10: a write to an existing path keeps its createdAt and sets modifiedAt
\* to the time of the write, which is not before the earlier modifiedAt; a
\* write to a new path sets both to the time of the write; and every stored
\* file has createdAt <= modifiedAt.
C10_CreatedKeptModifiedAdvances ==
  /\ [](\A path \in DOMAIN files :
          files[path].createdAt <= files[path].modifiedAt /\ files[path].modifiedAt <= now)
  /\ [][\A path \in FullPaths :
          Writes(path) =>
            /\ files'[path].modifiedAt = now
            /\ IF HasFile(path)
               THEN /\ files'[path].createdAt = files[path].createdAt
                    /\ files'[path].modifiedAt >= files[path].modifiedAt
               ELSE files'[path].createdAt = now]_vars

\* a file written again at a later time: createdAt is older than modifiedAt
C10_Witness ==
  \E path \in DOMAIN files :
    /\ files[path].createdAt < files[path].modifiedAt
    /\ files[path].modifiedAt = now
    /\ ret.op \in {"setFile", "write_project_file"}

(***************************************************************************)
(* Properties of the URL registry.                                         *)
(***************************************************************************)
\* the url is registered with a sequence of at least one response
HasSequence(u) == u \in DOMAIN responses /\ responses[u].array /\ Len(responses[u].list) >= 1

\* entry min(k, n) of the sequence registered for u, k the number of this lookup
EntryForNextLookup(u) ==
  responses[u].list[Min(lookups[u] + 1, Len(responses[u].list))]

\* C5: for a URL registered with a response sequence of length n >= 1, the
\* k-th lookup of that URL since the registration returns entry min(k, n) of
\* the sequence, whether the lookup is a getResponse call or the one a
\* fetch_url command makes: the entries in order, then the last one forever.
C5_SequenceClampsAtLastEntry ==
  [][\A u \in Urls :
       HasSequence(u) =>
         /\ getResponse(u) => ret'.out = Resolved("record", EntryForNextLookup(u))
         /\ Invoke("fetch_url", [url |-> u, timeoutMs |-> 30000]) =>
              ret'.out = Resolved("record", FetchResult(EntryForNextLookup(u)))]_vars

\* the fourth lookup of a two-entry sequence has returned the second entry
C5_Witness ==
  \E u \in Urls :
    /\ HasSequence(u)
    /\ responses[u].list = <<RespNetwork, RespOk>>
    /\ lookups[u] = 4
    /\ ret.op = "getResponse"
    /\ ret.out = Resolved("record", RespOk)

(***************************************************************************)
(* Properties of downloads.                                                *)
(***************************************************************************)
\* the response the next lookup of u selects has status exactly 0
SelectsStatusZero(u) == ResponseFor(u).kind = "response" /\ ResponseFor(u).status = 0

\* the download of u went to failedDownloads and nowhere else
RecordedAsFailed(u) ==
  /\ failedDownloads' = Append(failedDownloads, [url |-> u, error |-> "Network error"])
  /\ completedDownloads' = completedDownloads

\* C6: when the response selected for a URL has status exactly 0, the
\* download_asset command fails with the "Network timeout" error, downloadAsset
\* rejects with it, no result record is returned, and the download is recorded
\* in failedDownloads and not in completedDownloads.
C6_StatusZeroFailsDownload ==
  [][\A u \in DownloadUrls :
       SelectsStatusZero(u) =>
         /\ Invoke("download_asset", DownloadPayload(u)) =>
              ret'.out = Rejected(NetworkTimeout) /\ RecordedAsFailed(u)
         /\ (bridge = "mock" /\ downloadAsset(u, <<"p">>, "assets")) =>
              ret'.out = Rejected(NetworkTimeout) /\ RecordedAsFailed(u)]_vars

\* downloadAsset has rejected on a status 0 response that says ok, and the
\* tracker holds the failure only
C6_Witness ==
  /\ ret.op = "downloadAsset"
  /\ ret.out = Rejected(NetworkTimeout)
  /\ \E u \in DownloadUrls : u \in DOMAIN responses /\ responses[u] = Single(RespNetworkOk)
  /\ Len(failedDownloads) = 2
  /\ completedDownloads = <<>>
  /\ activeDownloads = 0

(***************************************************************************)
(* Properties of the binary registry.                                      *)
(***************************************************************************)
\* "path args-joined-by-space"
JoinedKey(path, args) == path \o <<" ">> \o JoinArgs(args)

\* the lookup by precedence: the key, then the path alone, then the default
ByPrecedence(key, path) ==
  IF key \in DOMAIN results THEN results[key]
  ELSE IF path \in DOMAIN results THEN results[path]
  ELSE defaultResult

\* C7: getResult(path, args) returns the result registered under the exact key
\* "path args-joined-by-space" if there is one, else the one registered under
\* "path" if there is one, else the default (success true, exit code 0, empty
\* stdout and stderr), for every registry content, path and argument list.
C7_ExactThenPathThenDefault ==
  \A b \in BinaryPaths, a \in BinaryArgs :
    getResult(b, a) = ByPrecedence(JoinedKey(b, a), b)

(***************************************************************************)
(* Properties of the download tracker.                                     *)
(***************************************************************************)
\* C8: from a fresh or reset tracker, after N startDownload calls and no
\* endDownload, activeDownloads is N and maxConcurrent is at least N; once
\* each of the N has been ended, activeDownloads is 0; and no endDownload
\* changes maxConcurrent.
C8_TrackerCountsStartsAndEnds ==
  /\ [](Ended = 0 => activeDownloads = started /\ maxConcurrent >= started)
  /\ [](Ended = started => activeDownloads = 0)
  /\ [][\A u \in Urls, success \in BOOLEAN, e \in EndErrors :
          endDownload(u, success, e) => maxConcurrent' = maxConcurrent]_vars

\* three downloads started before any ended, then all three ended
C8_Witness ==
  /\ started = 3
  /\ Ended = 3
  /\ activeDownloads = 0
  /\ maxConcurrent = 3

(***************************************************************************)
(* Properties of the dispatch function.                                    *)
(***************************************************************************)
\* C11: every command a domain wrapper issues against the mock bridge has a
\* handler of its own in the dispatch function: no wrapper call made against
\* the mock falls through to the unknown-command branch.
C11_EveryWrapperCommandHandled ==
  [][(IsCall /\ bridge = "mock") =>
       \A j \in 1..Len(NewCall.cmds) : NewCall.cmds[j] \in HandledCommands]_vars

\* C12: a command the dispatch function does not recognize resolves to null,
\* does not fail, and changes no store of the mock.
C12_UnknownCommandResolvesNull ==
  [][\A c \in UnknownCommands :
       Invoke(c, UnknownPayload) => ret'.out = ResolvedNull /\ UNCHANGED storeVars]_vars

\* an unknown command has resolved to null on a mock whose stores hold data
C12_Witness ==
  /\ ret.op = "refresh_index"
  /\ ret.out = ResolvedNull
  /\ HasFile(MockPath)
  /\ Len(openedUrls) = 2
  /\ Len(failedDownloads) = 1
  /\ cookies # EmptyMap

\* C13: after cleanup(), whatever was done before, the bridge is unavailable
\* and every store is as new: no files, activeDownloads 0, maxConcurrent 0,
\* no completed or failed downloads, every URL lookup yields the default
\* response and no sequence counter is kept, every binary lookup yields the
\* default result, every cookie lookup yields the empty list, and the browser
\* tracker shows no opened URLs, closeCount 0 and isOpen false.
C13_CleanupRestoresInitialStores ==
  [][cleanup =>
       /\ ~isTauriAvailable'
       /\ files' = EmptyMap
       /\ activeDownloads' = 0 /\ maxConcurrent' = 0
       /\ completedDownloads' = <<>> /\ failedDownloads' = <<>>
       /\ \A u \in Urls : ResponseFor(u)' = defaultResponse /\ CountOf(u)' = 0
       /\ callCounts' = EmptyMap
       /\ \A b \in BinaryPaths, a \in BinaryArgs : getResult(b, a)' = defaultResult
       /\ getCookies(<<"g">>, <<"p">>)' = <<>> /\ cookies' = EmptyMap
       /\ openedUrls' = <<>> /\ closeCount' = 0 /\ isOpen' = FALSE]_vars

\* cleanup has run on a mock with a delayed download in flight: the stores
\* are empty, the timer is still set
C13_Witness ==
  /\ bridge = "absent"
  /\ ret.op = "download_asset"
  /\ ret.out = Pending
  /\ Len(timers) = 1
  /\ activeDownloads = 0 /\ maxConcurrent = 0
  /\ files = EmptyMap /\ responses = EmptyMap /\ results = EmptyMap /\ cookies = EmptyMap
  /\ openedUrls = <<>>

(***************************************************************************)
(* Properties of the browser tracker.                                      *)
(***************************************************************************)
\* C20: each open_plugin_browser and close_plugin_browser command handled by
\* the mock resolves to null without failing; an open appends its URL to
\* openedUrls and makes isOpen true, a close adds one to closeCount and makes
\* isOpen false, so that openedUrls lists the opened URLs in call order,
\* closeCount is the number of closes and isOpen tells whether the latest
\* browser command was an open.
C20_BrowserTrackerFollowsCommands ==
  [][/\ \A u \in BrowserUrls :
          Invoke("open_plugin_browser", [url |-> u]) =>
            /\ ret'.out = ResolvedNull
            /\ openedUrls' = Append(openedUrls, u)
            /\ isOpen' = TRUE
            /\ closeCount' = closeCount
     /\ Invoke("close_plugin_browser", [url |-> "undefined"]) =>
          /\ ret'.out = ResolvedNull
          /\ closeCount' = closeCount + 1
          /\ isOpen' = FALSE
          /\ openedUrls' = openedUrls]_vars

(***************************************************************************)
(* Properties of the cookie store.                                         *)
(***************************************************************************)
\* a step that stores list l for the pair (p, j), by either interface
Stores(p, j, l) ==
  setCookies(p, j, l) \/ Invoke("set_plugin_cookie", SetCookiePayload(p, j, l))

\* C19: the cookie store is keyed per plugin and project: storing a list for
\* (p, j) makes getCookies(p, j) that list, replacing what was there; storing
\* for a different pair leaves getCookies(p, j) as it was; get_plugin_cookie
\* and getCookies for (p, j) return that list, empty if nothing was stored.
C19_CookiesKeyedPerPluginAndProject ==
  [][\A p \in CookiePlugins, j \in CookieProjects :
       /\ \A l \in CookieLists : Stores(p, j, l) => getCookies(p, j)' = l
       /\ \A p2 \in CookiePlugins, j2 \in CookieProjects, l \in CookieLists :
            (<<p2, j2>> # <<p, j>> /\ Stores(p2, j2, l))
              => getCookies(p, j)' = getCookies(p, j)
       /\ Invoke("get_plugin_cookie", CookiePayload(p, j))
            => ret'.out = Resolved("list", getCookies(p, j))
       /\ getCookiesCall(p, j) => ret'.out = Resolved("list", getCookies(p, j))]_vars

(***************************************************************************)
(* Properties of all wrappers.                                             *)
(***************************************************************************)
\* the call is made with what the wrapper needs before it invokes: a bridge,
\* and the hook context if the wrapper reads it
CanInvoke(op) == isTauriAvailable /\ (op \in ContextWrappers => ContextIsSet)

\* C14: each wrapper call invokes exactly one command on the bridge when
\* the bridge is present and, for a context-dependent wrapper, the hook
\* context is set; fileExists invokes a single read_project_file; a call that
\* fails with the hook-context error or the bridge-unavailable error invokes
\* nothing.
C14_OneInvocationPerCall ==
  [][IsCall =>
       /\ CanInvoke(NewCall.op) => Len(NewCall.cmds) = 1 /\ Len(NewCall.sent) = 1
       /\ (CanInvoke(NewCall.op) /\ NewCall.op = "fileExists")
            => NewCall.cmds = <<"read_project_file">>
       /\ NewCall.out \in {Rejected(HookError), Rejected(BridgeError)}
            => NewCall.cmds = <<>>]_vars

\* fileExists has answered true on the mock after one read_project_file
C14_Witness ==
  \E i \in 1..Len(pending) :
    /\ pending[i].op = "fileExists"
    /\ pending[i].out = Resolved("bool", TRUE)
    /\ pending[i].cmds = <<"read_project_file">>
    /\ bridge = "mock"

\* the wrappers that handle no failure themselves
PlainWrappers ==
  (ContextWrappers \cup {"openBrowser", "closeBrowser", "fetchUrl", "downloadAsset"})
    \ {"fileExists"}

\* C15: for every wrapper but the messaging functions and fileExists, a
\* failed invocation is the wrapper's failure, unchanged: with the bridge
\* absent the call fails with "Tauri core not available" and invokes nothing;
\* when the bridge rejects the command with an error the call fails with that
\* error, after that one invocation and no other.
C15_InvocationFailurePropagates ==
  [][(IsCall /\ NewCall.op \in PlainWrappers
        /\ (NewCall.op \in ContextWrappers => ContextIsSet))
       => /\ ~isTauriAvailable => NewCall.out = Rejected(BridgeError) /\ NewCall.cmds = <<>>
          /\ isTauriAvailable =>
               /\ Len(NewCall.cmds) = 1
               /\ BridgeResult(NewCall.cmds[1], NewCall.sent[1]).st = "rejected"
                    => NewCall.out = BridgeResult(NewCall.cmds[1], NewCall.sent[1])
          /\ bridge = "reject" => NewCall.out = Rejected(HostError)]_vars

\* writeFile has failed with the error of a bridge that rejects
C15_Witness ==
  \E i \in 1..Len(pending) :
    /\ pending[i].op = "writeFile"
    /\ pending[i].out = Rejected(HostError)
    /\ pending[i].cmds = <<"write_project_file">>
    /\ bridge = "reject"

(***************************************************************************)
(* Properties of messaging.                                                *)
(***************************************************************************)
NoMessageContext == [pluginName |-> <<>>, hookName |-> ""]

\* the plugin-name/hook-name pair a plugin_message payload carries
PairOf(payload) == [pluginName |-> payload.pluginName, hookName |-> payload.hookName]

\* C16: every plugin_message invocation carries the plugin-name/hook-name
\* pair current when sendMessage was called: the pair of the latest
\* setMessageContext call, two empty strings before any; a setMessageContext
\* call leaves the messages in flight as they are; and getMessageContext
\* returns the pair set last.
C16_MessageCarriesCurrentContext ==
  /\ msgCtx = NoMessageContext
  /\ [][/\ (IsCall /\ NewCall.op = "sendMessage" /\ isTauriAvailable)
             => NewCall.cmds = <<"plugin_message">> /\ PairOf(NewCall.sent[1]) = msgCtx
        /\ \A m \in MessageContexts :
             setMessageContext(m.pluginName, m.hookName) => msgCtx' = m /\ pending' = pending
        /\ (\A m \in MessageContexts : ~setMessageContext(m.pluginName, m.hookName))
             => msgCtx' = msgCtx
        /\ getMessageContext => ret'.out = Resolved("record", msgCtx)]_vars

\* a message is in flight with the pair of its call while the context has
\* moved on, and getMessageContext has returned the new pair
C16_Witness ==
  \E i \in 1..Len(pending) :
    /\ pending[i].op = "sendMessage"
    /\ Len(pending[i].sent) = 1
    /\ PairOf(pending[i].sent[1]) \in MessageContexts
    /\ msgCtx \in MessageContexts
    /\ PairOf(pending[i].sent[1]) # msgCtx
    /\ ret.op = "getMessageContext"
    /\ ret.out = Resolved("record", msgCtx)

(***************************************************************************)
(* Properties of the wrappers that name a directory of the project.        *)
(***************************************************************************)
\* C17: downloadAsset is context-dependent: it invokes download_asset with
\* projectPath equal to the project_path of the current hook context, never
\* a path of the caller, and fails with the hook error when the hook context
\* is unset.
C17_DownloadAssetUsesContextPath ==
  [][\A P \in CallerPaths :
       downloadAsset_call(MockUrl, P, "assets") =>
         /\ ~ContextIsSet => NewCall.out = Rejected(HookError) /\ NewCall.cmds = <<>>
         /\ (ContextIsSet /\ isTauriAvailable) =>
              /\ NewCall.cmds = <<"download_asset">>
              /\ NewCall.sent[1].projectPath = context.project_path]_vars

C21_HasContextAgreesWithGetInternalContext ==
  [][hasContext_call =>
       /\ ret'.out.st = "resolved"
       /\ ret'.out.val = (getInternalContext.st = "resolved")]_vars

(***************************************************************************)
(* Properties of delayed responses.                                        *)
(***************************************************************************)
\* the response the next lookup of u returns declares a delay
DeclaresDelay(u) == ResponseFor(u).kind = "response" /\ ResponseFor(u).delay # 0

\* this step leaves the invocation unsettled, to settle when the delay of the
\* response has elapsed
Delayed(u) ==
  /\ ret'.out = Pending
  /\ Len(timers') = Len(timers) + 1
  /\ timers'[Len(timers')].due = now + ResponseFor(u).delay

\* C22: a fetch_url or download_asset whose response declares a delay neither
\* resolves nor rejects before the delay has elapsed, whatever the status of
\* the response.
C22_DelayHonoured ==
  [][/\ \A u \in DelayUrls :
          /\ (Invoke("fetch_url", FetchPayload(u)) /\ DeclaresDelay(u)) => Delayed(u)
          /\ (Invoke("download_asset", DownloadPayload(u)) /\ DeclaresDelay(u))
               => Delayed(u)
     /\ FireTimer => now >= timers[1].due]_vars

\* C22, amended: a fetch_url whose response declares a delay, and a
\* download_asset whose response declares a delay and a status other than 0,
\* neither resolves nor rejects before the delay has elapsed; a
\* download_asset whose response has status 0 rejects with the network error
\* at once, delay or not, and sets no timer.
C22_DelayHonouredUnlessStatusZero ==
  [][/\ \A u \in DelayUrls :
          /\ (Invoke("fetch_url", FetchPayload(u)) /\ DeclaresDelay(u)) => Delayed(u)
          /\ (Invoke("download_asset", DownloadPayload(u)) /\ DeclaresDelay(u))
               => IF ResponseFor(u).status # 0 THEN Delayed(u)
                  ELSE ret'.out = Rejected(NetworkTimeout) /\ timers' = timers
     /\ FireTimer => now >= timers[1].due]_vars

\* a download of a response with delay 2 has resolved, two ticks after it
\* started
C22_Witness ==
  /\ ret.op = "download_asset"
  /\ ret.out.st = "resolved"
  /\ now = 2
  /\ timers = <<>>
  /\ \E u \in DelayUrls : u \in DOMAIN responses /\ responses[u] = Single(RespSlower)

(***************************************************************************)
(* Properties of the listing by pattern.                                   *)
(***************************************************************************)
RECURSIVE WildcardMatches(_, _)
\* the pattern as a whole-string wildcard: `*` any run of characters, `?`
\* exactly one character, every other character itself
WildcardMatches(pattern, p) ==
  IF pattern = <<>> THEN p = <<>>
  ELSE IF Head(pattern) = "*"
  THEN \/ WildcardMatches(Tail(pattern), p)
       \/ p # <<>> /\ WildcardMatches(pattern, Tail(p))
  ELSE /\ p # <<>>
       /\ Head(pattern) = "?" \/ Head(pattern) = Head(p)
       /\ WildcardMatches(Tail(pattern), Tail(p))

\* C23: listFiles(pattern) returns exactly the stored paths that match the
\* pattern as a whole-string wildcard in which `*` is any run of characters,
\* `?` exactly one character and every other character itself; with no
\* pattern (none given, or the empty string) it returns all stored paths.
C23_ListFilesMatchesWildcard ==
  [][\A pattern \in Patterns :
       listFiles_call(pattern) =>
         ret'.out = Resolved("list",
                      IF ~pattern.given \/ pattern.text = <<>> THEN DOMAIN files
                      ELSE {p \in DOMAIN files : WildcardMatches(pattern.text, p)})]_vars

(***************************************************************************)
(* Properties of error reports.                                            *)
(***************************************************************************)
\* C24: reportError(e) sends a message of type "error" with error text e,
\* fatal false and no context; reportError(e, c, f) sends the context c and
\* the fatal flag f as given.
C24_ReportErrorDefaults ==
  [][\A a \in ErrorArgs :
       (reportError(a) /\ isTauriAvailable) =>
         /\ NewCall.cmds = <<"plugin_message">>
         /\ NewCall.sent[1].message.type = "error"
         /\ NewCall.sent[1].message.error = a.error
         /\ NewCall.sent[1].message.context =
              (IF "context" \in DOMAIN a THEN a.context ELSE "undefined")
         /\ NewCall.sent[1].message.fatal =
              (IF "fatal" \in DOMAIN a THEN a.fatal ELSE FALSE)]_vars

\* an error reported with its text alone is in flight, not fatal and without
\* context
C24_Witness ==
  \E i \in 1..Len(pending) :
    /\ pending[i].cmds = <<"plugin_message">>
    /\ pending[i].sent[1].message.type = "error"
    /\ pending[i].sent[1].message.error = "x"
    /\ pending[i].sent[1].message.context = "undefined"
    /\ pending[i].sent[1].message.fatal = FALSE

(***************************************************************************)
(* Properties of the download counters.                                    *)
(***************************************************************************)
\* C25: activeDownloads is never negative and never exceeds maxConcurrent,
\* for every interleaving of download_asset calls, delayed completions and
\* reset() or cleanup() calls.
C25_ActiveWithinBounds ==
  /\ activeDownloads >= 0
  /\ activeDownloads <= maxConcurrent

\* the tracker's buckets after one download of u has been recorded by ok
RecordedByOk(u, ok) ==
  IF ok
  THEN completedDownloads' = Append(completedDownloads, u)
       /\ failedDownloads' = failedDownloads
  ELSE /\ completedDownloads' = completedDownloads
       /\ Len(failedDownloads') = Len(failedDownloads) + 1
       /\ failedDownloads'[Len(failedDownloads')].url = u
       /\ failedDownloads'[Len(failedDownloads')].error # ""

\* started = active + completed + failed
Balanced(s, a, c, f) == s = a + Len(c) + Len(f)

\* C26: every download_asset invocation is counted active from the call until
\* its completion and then recorded in exactly one bucket, completedDownloads
\* if the selected response has ok true and failedDownloads with an error
\* message otherwise; the recording and the decrement of activeDownloads come
\* no later than the settling of the promise; and absent a reset,
\* started = active + completed + failed.
C26_CountedActiveThenBucketedByOk ==
  [][/\ \A u \in DownloadUrls :
          Invoke("download_asset", DownloadPayload(u)) =>
            IF ret'.out.st = "pending"
            THEN /\ activeDownloads' = activeDownloads + 1
                 /\ UNCHANGED <<completedDownloads, failedDownloads>>
            ELSE /\ activeDownloads' = activeDownloads
                 /\ RecordedByOk(u, ResponseFor(u).ok)
     /\ (FireTimer /\ timers[1].cmd = "download_asset") =>
          /\ ret'.out.st # "pending"
          /\ activeDownloads' = activeDownloads - 1
          /\ RecordedByOk(timers[1].url, timers[1].ok)
     /\ (/\ ~resetTracker /\ ~cleanup /\ ~setupMockTauri
         /\ Balanced(started, activeDownloads, completedDownloads, failedDownloads))
          => Balanced(started', activeDownloads', completedDownloads', failedDownloads')]_vars

(***************************************************************************)
(* Properties of the wrappers under a changing context.                    *)
(***************************************************************************)
\* the payload names the plugin and the project of context c, in each field
\* it has for them
NamesContext(payload, c) ==
  /\ "projectPath" \in DOMAIN payload \/ "workingDir" \in DOMAIN payload
  /\ "projectPath" \in DOMAIN payload => payload.projectPath = c.project_path
  /\ "workingDir" \in DOMAIN payload => payload.workingDir = c.project_path
  /\ "pluginName" \in DOMAIN payload => payload.pluginName = c.plugin_name

\* C27: a context-dependent wrapper reads the hook context once, when it is
\* called: a call made while the context is set issues its command with the
\* plugin name and project path of the context of that moment, each call with
\* the context current at its own time, and the host's clearing or replacing
\* the context leaves the calls in flight, their payloads and their outcomes
\* as they are.
C27_ContextReadOnceAtCall ==
  [][/\ (IsCall /\ NewCall.op \in ContextWrappers /\ ContextIsSet /\ isTauriAvailable)
          => /\ Len(NewCall.sent) = 1
             /\ NamesContext(NewCall.sent[1], context)
     /\ context' # context => pending' = pending]_vars

\* a call made in the first project is in flight, resolving, with that
\* project's names while the host has cleared the context
C27_Witness ==
  \E i \in 1..Len(pending) :
    /\ pending[i].op = "getPluginCookie"
    /\ pending[i].out.st = "resolved"
    /\ NamesContext(pending[i].sent[1], CtxA)
    /\ ~ContextIsSet

\* C28: with the hook context unset and the bridge absent, every
\* context-dependent wrapper fails with the hook error, not with the bridge
\* error.
C28_ContextCheckPrecedesBridgeLookup ==
  [][(IsCall /\ NewCall.op \in ContextWrappers /\ ~ContextIsSet /\ ~isTauriAvailable)
       => /\ NewCall.out = Rejected(HookError)
          /\ NewCall.out # Rejected(BridgeError)]_vars

\* a wrapper has failed with the hook error with neither context nor bridge
C28_Witness ==
  /\ ~ContextIsSet
  /\ ~isTauriAvailable
  /\ \E i \in 1..Len(pending) :
       pending[i].op = "pluginFileExists" /\ pending[i].out = Rejected(HookError)

(***************************************************************************)
(* Properties of the lookups of the URL registry.                          *)
(***************************************************************************)
\* the responses a lookup of u may rightly return: the default one if u is
\* not registered, else one of the registered entries
EntriesOf(u) ==
  IF u \in DOMAIN responses
  THEN {responses[u].list[k] : k \in 1..Len(responses[u].list)}
  ELSE {defaultResponse}

\* C29: getResponse always returns a response record, the default response
\* or one of the registered entries, for every URL and every registration,
\* the empty sequence included; so fetch_url never fails for lack of a
\* response.
C29_GetResponseReturnsARecord ==
  [][\A u \in Urls :
       /\ getResponse(u) =>
            /\ ret'.out.ty = "record"
            /\ ret'.out.val \in EntriesOf(u)
       /\ Invoke("fetch_url", [url |-> u, timeoutMs |-> 30000]) =>
            ret'.out.st = "resolved"]_vars

\* this step is a lookup of u, by getResponse or by one of the two commands
Looks(u) ==
  \/ getResponse(u)
  \/ Invoke("fetch_url", FetchPayload(u))
  \/ Invoke("download_asset", DownloadPayload(u))

\* u is registered with a sequence
IsSequence(u) == u \in DOMAIN responses /\ responses[u].array

\* C30: the position in a URL's response sequence is the number of lookups of
\* that URL, by getResponse, fetch_url or download_asset, since its latest
\* setResponse: a lookup advances it by one and leaves the positions of the
\* other URLs alone, registering the URL again restarts it at the first
\* entry, and a URL registered with a single response returns that response
\* on every lookup.
C30_PositionCountsLookups ==
  /\ [](\A u \in Urls : IsSequence(u) => CountOf(u) = lookups[u])
  /\ [][\A u \in Urls :
          /\ (Looks(u) /\ IsSequence(u)) =>
               /\ CountOf(u)' = CountOf(u) + 1
               /\ \A v \in Urls \ {u} : CountOf(v)' = CountOf(v)
          /\ (\E c \in SequenceRegistrations : setResponse(u, c)) => CountOf(u)' = 0
          /\ (getResponse(u) /\ u \in DOMAIN responses /\ ~responses[u].array) =>
               ret'.out = Resolved("record", responses[u].list[1])]_vars

\* one sequence has been looked up three times and the other once, the last
\* lookup by a download
C30_Witness ==
  /\ IsSequence("https://h/u1") /\ CountOf("https://h/u1") = 3
  /\ IsSequence("https://h/u2.jpg") /\ CountOf("https://h/u2.jpg") = 1
  /\ ret.op = "download_asset"

====
